---- MODULE Spec2Model ----
(***************************************************************************)
(* Model of the case-search widgets of the chat message list:              *)
(* message classification, the active-widget resolver, the per-message     *)
(* selection handlers and the page-level selection slot.                   *)
(*                                                                         *)
(* Two revisions of ChatMessageList are in the repository and both are     *)
(* modelled; the variable `variant` says which one is mounted:             *)
(*   "window"  agent-backend/run_script.sh (sliding 10-message window,     *)
(*             SearchWidget / CaseResultList toggle per message)           *)
(*   "latest"  unnamed/part_000 (only the latest widget is active,         *)
(*             SearchWidget with onCaseSelect and onSelectionChange)       *)
(*   "basic"   src/components/ChatMessageList.tsx, the list the chat page  *)
(*             imports (no resolver, CaseResultList only)                  *)
(* The chat page (app/chat/page.tsx) is modelled with its sends, its       *)
(* conversations and fetchHistory.                                         *)
(* In the histories of the selection handlers a Case is modelled by its id *)
(* (a number); the messages of the chat page carry their text, and their   *)
(* cases are the objects parsed from it.                                   *)
(***************************************************************************)
EXTENDS Integers, Sequences, FiniteSets, TLC

VARIABLES
    variant,                \* which ChatMessageList revision is mounted
    messages,               \* chatHistory: sequence of message records
    widgets,                \* per message: local state of its mounted widget
    activeSearchWidgetIds,  \* activeIds captured by the handlers of the last render
    processedMsgIds,        \* processedMsgIds ref of the classification effect
    pageSelected,           \* ChatPage selectedCases: NoSelection or [messageId, cases]
    error,                  \* ChatPage error banner
    calls,                  \* onCaseSelection invocations made by the last handler
    pcSend,                 \* where handleSendMessage stands: idle, fetch or json
    requests,               \* the bodies POSTed to /api/agent so far
    classifyRuns,           \* per message id: how often the effect classified its text
    activeCid,              \* ChatPage activeCid: the conversation shown, NoCid for null
    pcHistory,              \* where fetchHistory stands: NoCid, or the conversation it awaits
    lastOp                  \* the last event handled (history variable)

vars == <<variant, messages, widgets, activeSearchWidgetIds, processedMsgIds,
          pageSelected, error, calls, pcSend, requests, classifyRuns,
          activeCid, pcHistory, lastOp>>

-----------------------------------------------------------------------------
(* Program constants *)

\* "Limit to 10 selected cases": currentSelected.length < 10
MAX_SELECTED == 10

\* "If we've seen 10 non-search messages": nonSearchCount >= 10
WINDOW == 10

(* Bounds of the model *)

\* number of distinct cases a search can return (ids 1..NumCases)
NumCases == 11

\* longest run of non-search messages between two case-search messages
MaxGap == 11

\* most case-search messages in a history
MaxSearch == 3

\* most messages the user sends in one run
MaxSends == 1

\* activeCid is null
NoCid == 0

\* the conversation loadConversations opens: list[0].id
FirstCid == 1

\* the conversations of the shelf
NumConversations == 2

Cids == FirstCid..NumConversations

\* historyLoading of ChatPage
HistoryLoading(pc) == pc # NoCid

\* ChatPage renders ChatMessageList: !historyLoading && messages.length > 0
ListRendered(msgs, pc) == ~HistoryLoading(pc) /\ Len(msgs) > 0

-----------------------------------------------------------------------------
(* Sequence helpers *)

Range(s) == {s[i] : i \in 1..Len(s)}

\* F applied to the value of e; the value is computed once, however often
\* F uses it
With(e, F(_)) == CHOOSE r \in {F(x) : x \in {e}} : TRUE

Includes(s, x) == \E i \in 1..Len(s) : s[i] = x

\* Array.prototype.filter keeping the elements whose id is in the set ids
FilterIn(s, ids) == LET keep(x) == x \in ids IN SelectSeq(s, keep)

\* Array.prototype.filter dropping the element x
FilterOut(s, x) == LET keep(y) == y # x IN SelectSeq(s, keep)

\* the sequence 1, 2, ..., n
UpTo(n) == [i \in 1..n |-> i]

-----------------------------------------------------------------------------
(* Messages *)

\* ChatMessage: cases undefined is hasCases = FALSE; selectedCases undefined
\* is the empty sequence (every reader uses `selectedCases || []`).
\* form is the shape of text, payload the data.cases array it encodes.
Message(id, sender, form, payload) ==
    [id |-> id, sender |-> sender, form |-> form, payload |-> payload,
     hasCases |-> FALSE, cases |-> <<>>, selectedCases |-> <<>>,
     showSearchWidget |-> FALSE]

\* msg.sender === 'bot' && msg.cases && msg.cases.length > 0
IsSearchMessage(msg) ==
    msg.sender = "bot" /\ msg.hasCases /\ Len(msg.cases) > 0

-----------------------------------------------------------------------------
(* Active-widget resolver *)

\* the loop over reversedMessages of the sliding-window revision; i runs from
\* the newest message (Len) down to the oldest (1)
RECURSIVE WindowScan(_, _, _, _, _)
WindowScan(msgs, i, activeIds, nonSearchCount, reachedLimit) ==
    IF i = 0 THEN activeIds
    ELSE IF IsSearchMessage(msgs[i])
         THEN WindowScan(msgs, i - 1,
                         IF ~reachedLimit THEN Append(activeIds, msgs[i].id)
                                          ELSE activeIds,
                         nonSearchCount, reachedLimit)
         ELSE IF Len(activeIds) > 0 /\ ~reachedLimit
              THEN WindowScan(msgs, i - 1, activeIds, nonSearchCount + 1,
                              nonSearchCount + 1 >= WINDOW)
              ELSE WindowScan(msgs, i - 1, activeIds, nonSearchCount, reachedLimit)

\* searchMessages[0] of the reversed history: index of the newest search
\* message, 0 when there is none
LatestSearchIndex(msgs) ==
    LET S == {i \in 1..Len(msgs) : IsSearchMessage(msgs[i])}
    IN IF S = {} THEN 0 ELSE CHOOSE i \in S : \A j \in S : j <= i

\* Variants of the window scan with one slip each:
\*   "fromNewest"     counts non-search messages before any widget was found
\*   "offByOne"       closes the window after more than WINDOW messages
\*   "perGap"         restarts the count at every case-search message
RECURSIVE SlippedScan(_, _, _, _, _, _)
SlippedScan(slip, msgs, i, activeIds, nonSearchCount, reachedLimit) ==
    IF i = 0 THEN activeIds
    ELSE IF IsSearchMessage(msgs[i])
         THEN SlippedScan(slip, msgs, i - 1,
                          IF ~reachedLimit THEN Append(activeIds, msgs[i].id)
                                           ELSE activeIds,
                          IF slip = "perGap" THEN 0 ELSE nonSearchCount,
                          reachedLimit)
         ELSE IF (slip = "fromNewest" \/ Len(activeIds) > 0) /\ ~reachedLimit
              THEN SlippedScan(slip, msgs, i - 1, activeIds, nonSearchCount + 1,
                               IF slip = "offByOne"
                               THEN nonSearchCount + 1 > WINDOW
                               ELSE nonSearchCount + 1 >= WINDOW)
              ELSE SlippedScan(slip, msgs, i - 1, activeIds, nonSearchCount,
                               reachedLimit)

FindActiveWindow_FromNewest(msgs) ==
    SlippedScan("fromNewest", msgs, Len(msgs), <<>>, 0, FALSE)

FindActiveWindow_OffByOne(msgs) ==
    SlippedScan("offByOne", msgs, Len(msgs), <<>>, 0, FALSE)

FindActiveWindow_PerGap(msgs) ==
    SlippedScan("perGap", msgs, Len(msgs), <<>>, 0, FALSE)

\* findActiveSearchWidgets(messages).activeIds, sliding-window revision
FindActiveWindow(msgs) ==
    IF LatestSearchIndex(msgs) = 0 THEN <<>>
    ELSE WindowScan(msgs, Len(msgs), <<>>, 0, FALSE)

\* findActiveSearchWidgets(messages).activeIds, latest-only revision
FindActiveLatest(msgs) ==
    IF LatestSearchIndex(msgs) = 0 THEN <<>>
    ELSE <<msgs[LatestSearchIndex(msgs)].id>>

findActiveSearchWidgets(v, msgs) ==
    IF v = "window" THEN FindActiveWindow(msgs)
    ELSE IF v = "latest" THEN FindActiveLatest(msgs)
    ELSE <<>>

-----------------------------------------------------------------------------
(* Message text and JSON *)

\* A text is a sequence of tokens. The characters that matter to the
\* extraction strategies are tokens of their own: braces, brackets, colon,
\* comma, the double quote Q, a backslash followed by a double quote BSQ,
\* white space NL and the two code fences. Every other token stands for a run
\* of ordinary characters; U_TYPE is the word type spelled with a \u escape.
Q == "\""

BSQ == "\\\""

NL == "\n"

BACKSLASH == "\\"

\* three backquotes, and three backquotes followed by json
FENCE == "<fence>"

FENCE_JSON == "<fence>json"

U_TYPE == "\\u0074ype"

\* MESSAGE_TYPES.CASE_SEARCH_RESULTS
CASE_SEARCH_RESULTS == "CASE_SEARCH_RESULTS"

\* length of a token in characters, as far as the offsets compared by
\* tryExtractJSON need it: the json fence has 7, the plain fence 3, an
\* escaped quote 2
TokenLength(tok) ==
    IF tok = FENCE_JSON THEN 7 ELSE IF tok = FENCE THEN 3
    ELSE IF tok = BSQ THEN 2 ELSE 1

\* character offset of the token at position p (offsets start at 0)
RECURSIVE Offset(_, _)
Offset(text, p) ==
    IF p <= 1 THEN 0 ELSE Offset(text, p - 1) + TokenLength(text[p - 1])

\* first position from p on whose token is in toks, 0 when there is none
FirstAt(text, p, toks) ==
    LET hits == {q \in p..Len(text) : text[q] \in toks}
    IN IF hits = {} THEN 0 ELSE CHOOSE q \in hits : \A r \in hits : q <= r

\* String.prototype.trim
RECURSIVE Trim(_)
Trim(text) ==
    IF text = <<>> THEN text
    ELSE IF Head(text) = NL THEN Trim(Tail(text))
    ELSE IF text[Len(text)] = NL THEN Trim(SubSeq(text, 1, Len(text) - 1))
    ELSE text

\* JSON values: k is the kind; s the characters of a string; keys and items
\* the members of an object in source order; items the elements of an array
JUndefined == [k |-> "undefined", s |-> <<>>, keys |-> <<>>, items |-> <<>>]

JNull == [k |-> "null", s |-> <<>>, keys |-> <<>>, items |-> <<>>]

JString(s) == [k |-> "string", s |-> s, keys |-> <<>>, items |-> <<>>]

JArray(items) == [k |-> "array", s |-> <<>>, keys |-> <<>>, items |-> items]

JObject(keys, items) == [k |-> "object", s |-> <<>>, keys |-> keys, items |-> items]

\* value.key in JavaScript, for a value that is neither null nor undefined:
\* the last member with that key, undefined when there is none
Get(value, key) ==
    LET at == {i \in 1..Len(value.keys) : value.keys[i] = <<key>>}
    IN IF value.k = "object" /\ at # {}
       THEN value.items[CHOOSE i \in at : \A j \in at : j <= i]
       ELSE JUndefined

\* a value that passes `if (value)` / `value &&`
Truthy(value) ==
    value.k \notin {"undefined", "null"} /\ value # JString(<<>>)

\* Array.isArray
IsArray(value) == value.k = "array"

\* the characters a string literal stands for
Unescape(chars) ==
    [i \in 1..Len(chars) |->
        IF chars[i] = BSQ THEN Q
        ELSE IF chars[i] = U_TYPE THEN "type" ELSE chars[i]]

\* the string literal of a run of characters
Escape(chars) ==
    [i \in 1..Len(chars) |-> IF chars[i] = Q THEN BSQ ELSE chars[i]]

SyntaxError == [ok |-> FALSE, val |-> JUndefined, next |-> 0]

Parsed(value, next) == [ok |-> TRUE, val |-> value, next |-> next]

\* position of the next token that is not white space
SkipSpace(text, p) ==
    LET rest == {q \in p..Len(text) : text[q] # NL}
    IN IF rest = {} THEN Len(text) + 1 ELSE CHOOSE q \in rest : \A r \in rest : q <= r

\* a string literal opening at position p
ParseString(text, p) ==
    LET close == FirstAt(text, p + 1, {Q})
    IN IF close = 0 THEN SyntaxError
       ELSE IF \E q \in (p + 1)..(close - 1) : text[q] \in {NL, BACKSLASH}
            THEN SyntaxError
       ELSE Parsed(JString(Unescape(SubSeq(text, p + 1, close - 1))), close + 1)

RECURSIVE ParseValue(_, _)
RECURSIVE ParseElements(_, _, _)
RECURSIVE ParseMembers(_, _, _, _)
RECURSIVE MemberValue(_, _, _, _)

\* the JSON value starting at or after position p0
ParseValue(text, p0) ==
    With(SkipSpace(text, p0), LAMBDA p :
        IF p > Len(text) THEN SyntaxError
        ELSE IF text[p] = Q THEN ParseString(text, p)
        ELSE IF text[p] = "null" THEN Parsed(JNull, p + 1)
        ELSE IF text[p] = "["
             THEN With(SkipSpace(text, p + 1), LAMBDA q :
                     IF q <= Len(text) /\ text[q] = "]"
                     THEN Parsed(JArray(<<>>), q + 1)
                     ELSE ParseElements(text, p + 1, <<>>))
        ELSE IF text[p] = "{"
             THEN With(SkipSpace(text, p + 1), LAMBDA q :
                     IF q <= Len(text) /\ text[q] = "}"
                     THEN Parsed(JObject(<<>>, <<>>), q + 1)
                     ELSE ParseMembers(text, p + 1, <<>>, <<>>))
        ELSE SyntaxError)

\* the elements of an array after '[' or ','
ParseElements(text, p, acc) ==
    With(ParseValue(text, p), LAMBDA v :
        IF ~v.ok THEN SyntaxError
        ELSE With(SkipSpace(text, v.next), LAMBDA q :
                IF q > Len(text) THEN SyntaxError
                ELSE IF text[q] = ","
                     THEN ParseElements(text, q + 1, Append(acc, v.val))
                ELSE IF text[q] = "]" THEN Parsed(JArray(Append(acc, v.val)), q + 1)
                ELSE SyntaxError))

\* the value of a member after its key, and what follows the member
MemberValue(text, key, keys, items) ==
    With(SkipSpace(text, key.next), LAMBDA colon :
        IF colon > Len(text) \/ text[colon] # ":" THEN SyntaxError
        ELSE With(ParseValue(text, colon + 1), LAMBDA v :
                IF ~v.ok THEN SyntaxError
                ELSE With(SkipSpace(text, v.next), LAMBDA q :
                        IF q > Len(text) THEN SyntaxError
                        ELSE IF text[q] = ","
                             THEN ParseMembers(text, q + 1, Append(keys, key.val.s),
                                               Append(items, v.val))
                        ELSE IF text[q] = "}"
                             THEN Parsed(JObject(Append(keys, key.val.s),
                                                 Append(items, v.val)), q + 1)
                        ELSE SyntaxError)))

\* the members of an object after '{' or ','
ParseMembers(text, p, keys, items) ==
    With(SkipSpace(text, p), LAMBDA kp :
        IF kp > Len(text) \/ text[kp] # Q THEN SyntaxError
        ELSE With(ParseString(text, kp), LAMBDA key :
                IF ~key.ok THEN SyntaxError
                ELSE MemberValue(text, key, keys, items)))

\* JSON.parse(text): ok is FALSE when it throws a SyntaxError
JSONParse(text) ==
    With(text, LAMBDA t :
        With(ParseValue(t, 1), LAMBDA v :
            IF v.ok /\ SkipSpace(t, v.next) > Len(t) THEN v ELSE SyntaxError))

RECURSIVE Stringify(_)
RECURSIVE StringifyList(_, _, _)

\* the members or elements from position i on, separated by commas
StringifyList(value, i, isObject) ==
    IF i > Len(value.items) THEN <<>>
    ELSE (IF i > 1 THEN <<",">> ELSE <<>>)
         \o (IF isObject THEN <<Q>> \o Escape(value.keys[i]) \o <<Q, ":">> ELSE <<>>)
         \o Stringify(value.items[i])
         \o StringifyList(value, i + 1, isObject)

\* JSON.stringify(value)
Stringify(value) ==
    IF value.k = "string" THEN <<Q>> \o Escape(value.s) \o <<Q>>
    ELSE IF value.k = "array" THEN <<"[">> \o StringifyList(value, 1, FALSE) \o <<"]">>
    ELSE IF value.k = "object" THEN <<"{">> \o StringifyList(value, 1, TRUE) \o <<"}">>
    ELSE <<"null">>

-----------------------------------------------------------------------------
(* tryExtractJSON and the decision of the classification effect *)

\* what one extraction strategy does: return a value, throw, or go on to
\* the next strategy
Return(value) == [kind |-> "return", val |-> value]

Throw == [kind |-> "throw", val |-> JUndefined]

GoOn == [kind |-> "goOn", val |-> JUndefined]

\* const json = JSON.parse(str); return json;
ParseAndReturn(str) ==
    With(JSONParse(str), LAMBDA parsed :
        IF parsed.ok THEN Return(parsed.val) ELSE Throw)

\* a strategy whose catch block lets the exception out again
Catch_Rethrows(attempt) == attempt

\* try { ... } catch (error) { console.log(...) }
Catch(attempt) == IF attempt.kind = "throw" THEN GoOn ELSE attempt

\* "First try direct parsing"
DirectStrategy(text) == ParseAndReturn(text)

\* the code block found by the two fence branches: fence is the opening
\* fence looked for, width its length
FenceBlock(text, fence, width) ==
    With(FirstAt(text, 1, {fence}), LAMBDA open :
        With(FirstAt(text, open + 1, {FENCE, FENCE_JSON}), LAMBDA close :
            LET start == Offset(text, open) + width
                end == IF close = 0 THEN 0 - 1 ELSE Offset(text, close)
            IN IF start > width /\ end > start
               THEN ParseAndReturn(Trim(SubSeq(text, open + 1, close - 1)))
               ELSE GoOn))

\* "Check if it's wrapped in markdown code blocks"
FenceStrategy(text) ==
    IF FirstAt(text, 1, {FENCE_JSON}) # 0
    THEN FenceBlock(text, FENCE_JSON, 7)
    ELSE IF FirstAt(text, 1, {FENCE}) # 0
    THEN FenceBlock(text, FENCE, 3)
    ELSE GoOn

\* text.slice(1, -1).replace(/\\"/g, '"')
Unquote(text) ==
    LET inner == SubSeq(text, 2, Len(text) - 1)
                 \o (IF text[Len(text)] = BSQ THEN <<BACKSLASH>> ELSE <<>>)
    IN [i \in 1..Len(inner) |-> IF inner[i] = BSQ THEN Q ELSE inner[i]]

\* "Check for a string with escaped quotes"
EscapedStrategy(text) ==
    IF /\ text # <<>>
       /\ text[1] = Q
       /\ text[Len(text)] \in {Q, BSQ}
       /\ FirstAt(text, 1, {BSQ}) # 0
    THEN ParseAndReturn(Unquote(text))
    ELSE GoOn

\* text contains "type" (with its quotes) at position p
TypeKeyAt(text, p) ==
    /\ p > 1 /\ p < Len(text)
    /\ text[p] = "type"
    /\ text[p - 1] \in {Q, BSQ}
    /\ text[p + 1] = Q

\* text.match(/{[\s\S]*?"type"[\s\S]*?}/g) from position p on
RECURSIVE PatternMatches(_, _)
PatternMatches(text, p) ==
    With(FirstAt(text, p, {"{"}), LAMBDA open :
        With({q \in (open + 2)..Len(text) : TypeKeyAt(text, q)}, LAMBDA keys :
            IF open = 0 \/ keys = {} THEN <<>>
            ELSE With(FirstAt(text, (CHOOSE q \in keys : \A r \in keys : q <= r) + 2,
                              {"}"}),
                      LAMBDA close :
                          IF close = 0 THEN <<>>
                          ELSE <<SubSeq(text, open, close)>>
                               \o PatternMatches(text, close + 1))))

\* for (const match of matches) { try { return JSON.parse(match) } catch {} }
RECURSIVE FirstParsable(_, _)
FirstParsable(matches, i) ==
    IF i > Len(matches) THEN GoOn
    ELSE With(Catch(ParseAndReturn(matches[i])), LAMBDA attempt :
            IF attempt.kind = "goOn" THEN FirstParsable(matches, i + 1)
            ELSE attempt)

\* "Look for JSON-like patterns in the text"
PatternStrategy(text) ==
    With(PatternMatches(text, 1), LAMBDA matches : FirstParsable(matches, 1))

\* the strategies in the order they are tried; each in its own try block
Strategies(text) ==
    <<Catch(DirectStrategy(text)), Catch(FenceStrategy(text)),
      Catch(EscapedStrategy(text)), Catch(PatternStrategy(text))>>

\* tryExtractJSON(text): the first strategy that does not go on decides;
\* return null when all go on
tryExtractJSON(text) ==
    With(text, LAMBDA t :
        With(Strategies(t), LAMBDA tried :
            LET decided == {i \in 1..Len(tried) : tried[i].kind # "goOn"}
            IN IF decided = {} THEN Return(JNull)
               ELSE tried[CHOOSE i \in decided : \A j \in decided : i <= j]))

\* a type check that accepts every object
HasSearchType_AnyObject(value) == Truthy(value)

\* jsonData.type === MESSAGE_TYPES.CASE_SEARCH_RESULTS
HasSearchType(value) ==
    Truthy(value) /\ Get(value, "type") = JString(<<CASE_SEARCH_RESULTS>>)

\* value.data && Array.isArray(value.data.cases)
HasCasesArray(value) ==
    Truthy(Get(value, "data")) /\ IsArray(Get(Get(value, "data"), "cases"))

\* caseParser.tryParseStructuredData(text); null is JNull
tryParseStructuredData(text) ==
    LET parsed == JSONParse(text)
    IN IF parsed.ok /\ HasSearchType(parsed.val) THEN parsed.val ELSE JNull

\* caseParser.isCaseSearchResult(text)
isCaseSearchResult(text) ==
    LET structuredData == tryParseStructuredData(text)
    IN structuredData # JNull /\ Get(structuredData, "type") = JString(<<CASE_SEARCH_RESULTS>>)

\* caseParser.parseCaseResults(text)
parseCaseResults(text) ==
    LET structuredData == tryParseStructuredData(text)
    IN IF Truthy(structuredData) /\ HasCasesArray(structuredData)
       THEN Get(Get(structuredData, "data"), "cases").items
       ELSE <<>>

\* What the classification effect does with the text of a bot message that
\* has no cases yet: threw when an exception leaves the effect, found when
\* it assigns message.cases, cases what it assigns, direct when JSON.parse
\* of the whole text gives the object the cases are taken from.
ClassifyText(text) ==
    LET none == [threw |-> FALSE, found |-> FALSE, cases |-> <<>>, direct |-> FALSE]
    IN With(tryExtractJSON(text), LAMBDA extractedJson :
        IF extractedJson.kind = "throw" THEN [none EXCEPT !.threw = TRUE]
        ELSE IF HasSearchType(extractedJson.val)
             THEN IF HasCasesArray(extractedJson.val)
                  THEN [none EXCEPT
                          !.found = TRUE,
                          !.cases = Get(Get(extractedJson.val, "data"), "cases").items,
                          !.direct = JSONParse(text).ok]
                  ELSE none
        ELSE IF isCaseSearchResult(text) /\ Len(parseCaseResults(text)) > 0
             THEN [none EXCEPT !.found = TRUE, !.cases = parseCaseResults(text),
                               !.direct = TRUE]
        ELSE none)

\* c.id || '', c.title || '', c.summary || ''
OrEmpty(value) == IF Truthy(value) THEN value ELSE JString(<<>>)

\* a mapping that copies the fields without the empty-string default
NormalizeCase_KeepsMissing(c) ==
    JObject(<<<<"id">>, <<"title">>, <<"summary">>>>,
            <<Get(c, "id"), Get(c, "title"), Get(c, "summary")>>)

\* jsonData.data.cases.map(c => ({ id: c.id || '', title: ..., summary: ... }))
NormalizeCase(c) ==
    JObject(<<<<"id">>, <<"title">>, <<"summary">>>>,
            <<OrEmpty(Get(c, "id")), OrEmpty(Get(c, "title")), OrEmpty(Get(c, "summary"))>>)

\* a bot or user message given by its text; form and payload record what the
\* classification effect makes of the text
TextMessage(id, sender, text) ==
    With(ClassifyText(text), LAMBDA made :
        [id |-> id, sender |-> sender, text |-> text,
         form |-> IF made.threw THEN "threw"
                  ELSE IF ~made.found THEN "plain"
                  ELSE IF made.direct THEN "direct" ELSE "fenced",
         payload |-> made.cases,
         hasCases |-> FALSE, cases |-> <<>>, selectedCases |-> <<>>,
         showSearchWidget |-> FALSE])

-----------------------------------------------------------------------------
(* Classification effect and render *)

\* tryExtractJSON(text) yields a CASE_SEARCH_RESULTS object with a data.cases
\* array: text is the payload itself ("direct") or the payload inside a
\* ```json fence ("fenced")
ExtractsCaseSearch(msg) == msg.form \in {"direct", "fenced"}

\* the effect runs the classification step on msg: a bot message not yet in
\* processedMsgIds; the revision of ChatMessageList.tsx keeps no such set and
\* takes every bot message
Classifies(v, msg, processed) ==
    msg.sender = "bot" /\ (v = "basic" \/ msg.id \notin processed)

\* the ids the effect can meet and the count every id starts with
MsgIds == 1..(10 * MaxSends + 3)

NoRuns == [id \in MsgIds |-> 0]

\* classifyRuns after one run of the effect over msgs
CountRuns(v, msgs, processed, runs) ==
    [id \in MsgIds |->
        IF \E i \in 1..Len(msgs) : msgs[i].id = id /\ Classifies(v, msgs[i], processed)
        THEN runs[id] + 1 ELSE runs[id]]

\* the effect "Process new case search results only once per message":
\* the messages after chatHistory.forEach
Classify(v, msgs, processed) ==
    [i \in 1..Len(msgs) |->
        IF Classifies(v, msgs[i], processed) /\ ExtractsCaseSearch(msgs[i])
        THEN [msgs[i] EXCEPT !.hasCases = TRUE, !.cases = msgs[i].payload,
                             !.showSearchWidget =
                                 IF v = "window" THEN TRUE ELSE @]
        ELSE msgs[i]]

\* hasUpdates of the same effect
HasUpdates(msgs, processed) ==
    \E i \in 1..Len(msgs) :
        msgs[i].sender = "bot" /\ msgs[i].id \notin processed
        /\ ExtractsCaseSearch(msgs[i])

\* processedMsgIds.current after the effect
Processed(msgs, processed) ==
    processed \cup {msgs[i].id : i \in {j \in 1..Len(msgs) : msgs[j].sender = "bot"}}

\* renderMessage takes its first branch: JSON.parse(chat.text) succeeds with
\* type CASE_SEARCH_RESULTS and a non-empty data.cases array
RendersFromJson(msg) ==
    msg.sender = "bot" /\ msg.form = "direct" /\ Len(msg.payload) > 0

\* renderMessage shows a widget for the message (first or second branch)
RendersWidget(msg) == RendersFromJson(msg) \/ IsSearchMessage(msg)

\* the list renderMessage maps out of jsonData.data.cases; a message given
\* without its text carries complete cases, which the mapping leaves as they are
JsonCases(msg) ==
    IF "text" \in DOMAIN msg
    THEN [k \in 1..Len(msg.payload) |-> NormalizeCase(msg.payload[k])]
    ELSE msg.payload

\* the latest-only revision stores the cases on the chat object while it
\* renders: chat.cases = jsonData.data.cases.map(...)
RenderMutation(v, msgs) ==
    [i \in 1..Len(msgs) |->
        IF v = "latest" /\ RendersFromJson(msgs[i])
        THEN [msgs[i] EXCEPT !.hasCases = TRUE, !.cases = JsonCases(msgs[i])]
        ELSE msgs[i]]

NoWidget == [swSelected |-> {}, swPrev |-> {}, swResults |-> <<>>, crlSelected |-> <<>>]

\* a widget that is not rendered is unmounted and loses its local state
KeepMounted(msgs, wids) ==
    [i \in 1..Len(msgs) |-> IF RendersWidget(msgs[i]) THEN wids[i] ELSE NoWidget]

\* One render of ChatMessageList: activeIds is computed from the history as
\* it is before renderMessage runs.
RenderOnce(v, world) ==
    [a |-> findActiveSearchWidgets(v, world.m),
     m |-> RenderMutation(v, world.m),
     w |-> KeepMounted(RenderMutation(v, world.m), world.w),
     p |-> world.p, page |-> world.page, calls |-> world.calls]

\* The classification effect applied to the rendered state r1
Classified(v, r1) ==
    [r1 EXCEPT !.m = Classify(v, r1.m, r1.p),
               !.p = IF v = "basic" THEN r1.p ELSE Processed(r1.m, r1.p)]

\* A render, the classification effect that follows it, and the render the
\* effect forces with setUpdateCounter when it changed a message.
\* (Each stage is bound to a variable so that it is evaluated once.)
Settle(v, world) ==
    CHOOSE settled \in
        {IF v # "basic" /\ HasUpdates(r1.m, r1.p)
         THEN CHOOSE r2 \in {RenderOnce(v, c) : c \in {Classified(v, r1)}} : TRUE
         ELSE Classified(v, r1) :
            r1 \in {RenderOnce(v, world)}} : TRUE

-----------------------------------------------------------------------------
(* Selection handlers *)

\* a list that never disables a widget (what the guards are compared with)
WidgetDisabled_Never(active, id) == FALSE

\* disabled={!activeSearchWidgetIds.includes(chat.id || '')}
WidgetDisabled(active, id) == ~Includes(active, id)

\* ChatPage.handleCaseSelection: one slot for the whole page
PageHandleCaseSelection(page, messageId, cases) ==
    IF Len(cases) > 0 THEN [messageId |-> messageId, cases |-> cases]
    ELSE [messageId |-> 0, cases |-> <<>>]

\* a handleCaseSelection that notifies the page with the selection the
\* message held before the update (what the notification is compared with)
HandleCaseSelection_StaleCallback(world, i, selected) ==
    [world EXCEPT
        !.calls = Append(@, [messageId |-> world.m[i].id,
                             cases |-> world.m[i].selectedCases]),
        !.page = PageHandleCaseSelection(@, world.m[i].id, world.m[i].selectedCases),
        !.m[i].selectedCases = selected]

\* ChatMessageList.handleCaseSelection(messageId, selectedCases) for the
\* message at position i
HandleCaseSelection(world, i, selected) ==
    [world EXCEPT
        !.calls = Append(@, [messageId |-> world.m[i].id, cases |-> selected]),
        !.page = PageHandleCaseSelection(@, world.m[i].id, selected),
        !.m[i].selectedCases = selected]

\* ChatMessageList.handleSearchResults(messageId, newCases)
HandleSearchResults(world, i, newCases) ==
    [world EXCEPT !.m[i].hasCases = TRUE, !.m[i].cases = newCases]

\* the new selection computed by onCaseSelect
NewSelected(currentSelected, c) ==
    IF Includes(currentSelected, c) THEN FilterOut(currentSelected, c)
    ELSE IF Len(currentSelected) < MAX_SELECTED THEN Append(currentSelected, c)
    ELSE currentSelected

\* onCaseSelect as passed to SearchWidget; the latest-only revision first
\* checks that the widget is active
OnCaseSelect(v, world, i, c) ==
    IF v = "latest" /\ ~Includes(world.a, world.m[i].id) THEN world
    ELSE HandleCaseSelection(world, i, NewSelected(world.m[i].selectedCases, c))

\* onSelectionChange as passed to SearchWidget by the latest-only revision
OnSelectionChange(world, i, selectedCaseIds) ==
    IF ~Includes(world.a, world.m[i].id) THEN world
    ELSE IF world.m[i].hasCases /\ selectedCaseIds # {}
         THEN HandleCaseSelection(world, i, FilterIn(world.m[i].cases, selectedCaseIds))
    ELSE IF selectedCaseIds = {}
         THEN HandleCaseSelection(world, i, <<>>)
    ELSE world

\* SearchWidget effect "Notify parent component when selected cases change"
SelectionEffect(world, i) ==
    LET cur  == world.w[i].swSelected
        prev == world.w[i].swPrev
        isDifferent == Cardinality(cur) # Cardinality(prev) \/ \E id \in cur : id \notin prev
    IN IF isDifferent
       THEN CHOOSE r \in {OnSelectionChange(w1, i, cur) :
                            w1 \in {[world EXCEPT !.w[i].swPrev = cur]}} : TRUE
       ELSE world

\* Set toggle of SearchWidget.toggleCaseSelection
ToggleInSet(S, c) == IF c \in S THEN S \ {c} ELSE S \cup {c}

\* CaseResultList.handleCheckboxChange: updatedCases
ToggleInList(selected, c) ==
    IF Includes(selected, c) THEN FilterOut(selected, c) ELSE Append(selected, c)

-----------------------------------------------------------------------------
(* Histories the resolver is applied to *)

\* lengths of the runs of non-search messages tried around the window size
GapChoices == {0, 1, WINDOW - 1, WINDOW, MaxGap}

NoOp == [op |-> "none", msg |-> 0, case |-> 0, accepted |-> FALSE, before |-> <<>>]

NoSelection == [messageId |-> 0, cases |-> <<>>]

\* a message that is not a case-search message: a user message, a plain bot
\* message, or a bot message classified with an empty cases array
NonSearchMessage(id, kind) ==
    IF kind = "empty"
    THEN [Message(id, "bot", "direct", <<>>) EXCEPT !.hasCases = TRUE]
    ELSE Message(id, IF id % 2 = 0 THEN "user" ELSE "bot", "plain", <<>>)

NonSearchRun(firstId, len, kind) ==
    [j \in 1..len |-> NonSearchMessage(firstId + j - 1, kind)]

\* a bot message already classified as a case-search message
ClassifiedSearchMessage(id, form, payload) ==
    [Message(id, "bot", form, payload) EXCEPT
        !.hasCases = TRUE, !.cases = payload, !.showSearchWidget = TRUE]

\* oldest first: for k = 1..n a run of g[k] non-search messages and then a
\* case-search message, and last a run of g[n+1] non-search messages
RECURSIVE HistoryFrom(_, _, _, _, _)
HistoryFrom(acc, k, n, g, kind) ==
    IF k > n THEN acc \o NonSearchRun(Len(acc) + 1, g[n + 1], kind)
    ELSE LET a == acc \o NonSearchRun(Len(acc) + 1, g[k], kind)
         IN HistoryFrom(Append(a, ClassifiedSearchMessage(Len(a) + 1, "fenced", <<1, 2>>)),
                        k + 1, n, g, kind)

InitResolver ==
    /\ variant \in {"window", "latest"}
    /\ \E n \in 0..MaxSearch, kind \in {"plain", "empty"} :
         \E g \in [1..(n + 1) -> GapChoices] :
            messages = HistoryFrom(<<>>, 1, n, g, kind)
    /\ widgets = [i \in 1..Len(messages) |-> NoWidget]
    /\ activeSearchWidgetIds = <<>>
    /\ processedMsgIds = {}
    /\ pageSelected = NoSelection
    /\ error = "null"
    /\ calls = <<>>
    /\ pcSend = "idle"
    /\ requests = <<>>
    /\ classifyRuns = NoRuns
    /\ activeCid = FirstCid
    /\ pcHistory = NoCid
    /\ lastOp = NoOp

\* a resolver that reverses the history it is given instead of a copy
Resolve_ReversesInPlace ==
    /\ lastOp.op \in {"none", "resolve"}
    /\ activeSearchWidgetIds' = findActiveSearchWidgets(variant, messages)
    /\ messages' = [i \in 1..Len(messages) |-> messages[Len(messages) + 1 - i]]
    /\ lastOp' = [NoOp EXCEPT !.op = "resolve"]
    /\ UNCHANGED <<variant, widgets, processedMsgIds, pageSelected,
                   error, calls, pcSend, requests, classifyRuns, activeCid,
                   pcHistory>>

\* const { activeIds } = findActiveSearchWidgets(chatHistory), on the first
\* render and on any later one: the function works on [...messages], a copy
Resolve ==
    /\ lastOp.op \in {"none", "resolve"}
    /\ activeSearchWidgetIds' = findActiveSearchWidgets(variant, messages)
    /\ lastOp' = [NoOp EXCEPT !.op = "resolve"]
    /\ UNCHANGED <<variant, messages, widgets, processedMsgIds, pageSelected,
                   error, calls, pcSend, requests, classifyRuns, activeCid,
                   pcHistory>>

NextResolver == Resolve

SpecResolver == InitResolver /\ [][NextResolver]_vars

-----------------------------------------------------------------------------
(* Vocabulary of the resolver claims *)

SearchIndexes(msgs) == {i \in 1..Len(msgs) : IsSearchMessage(msgs[i])}

\* how many non-search messages lie strictly between positions i and j
NonSearchBetween(msgs, i, j) ==
    Cardinality({k \in (i + 1)..(j - 1) : ~IsSearchMessage(msgs[k])})

\* position of the most recent case-search message (only used when one exists)
MostRecentSearch(msgs) ==
    CHOOSE i \in SearchIndexes(msgs) : \A j \in SearchIndexes(msgs) : j <= i

Resolved == lastOp.op = "resolve"

-----------------------------------------------------------------------------
(* Resolver claims, checked under SpecResolver *)

\* C4: whenever the history holds a case-search message, the active set the
\* resolver returns contains the id of the most recent one, however many
\* non-search messages follow it.
C4_MostRecentSearchIsActive ==
    (Resolved /\ SearchIndexes(messages) # {})
        => Includes(activeSearchWidgetIds, messages[MostRecentSearch(messages)].id)

\* C4 witness: a single case-search message followed by a full window of
\* non-search messages has been resolved under the sliding-window revision.
C4_Witness ==
    /\ Resolved
    /\ variant = "window"
    /\ Cardinality(SearchIndexes(messages)) = 1
    /\ Len(messages) - MostRecentSearch(messages) >= WINDOW
    /\ activeSearchWidgetIds = <<messages[MostRecentSearch(messages)].id>>

\* C5: a case-search message with WINDOW or more non-search messages between
\* it and a newer case-search message is not in the active set.
C5_OlderBeyondWindowExcluded ==
    Resolved =>
        \A i \in SearchIndexes(messages), j \in SearchIndexes(messages) :
            (i < j /\ NonSearchBetween(messages, i, j) >= WINDOW)
                => ~Includes(activeSearchWidgetIds, messages[i].id)

\* C5 witness: two case-search messages exactly WINDOW non-search messages
\* apart were resolved by the sliding-window revision; the older is excluded.
C5_Witness ==
    /\ Resolved
    /\ variant = "window"
    /\ \E i \in SearchIndexes(messages) :
          /\ i < MostRecentSearch(messages)
          /\ NonSearchBetween(messages, i, MostRecentSearch(messages)) = WINDOW
          /\ ~Includes(activeSearchWidgetIds, messages[i].id)

\* C6: under the sliding-window revision an older case-search message is
\* active exactly when fewer than WINDOW non-search messages lie between it
\* and the most recent case-search message, counted across the case-search
\* messages in between.
C6_WindowIsCumulative ==
    (Resolved /\ variant = "window") =>
        \A i \in SearchIndexes(messages) :
            i < MostRecentSearch(messages) =>
                (Includes(activeSearchWidgetIds, messages[i].id)
                    <=> NonSearchBetween(messages, i, MostRecentSearch(messages)) < WINDOW)

\* C6 witness: three case-search messages; the oldest is excluded only
\* because the two gaps together reach WINDOW, the middle one stays active.
C6_Witness ==
    /\ Resolved
    /\ variant = "window"
    /\ \E i \in SearchIndexes(messages), k \in SearchIndexes(messages) :
          /\ i < k /\ k < MostRecentSearch(messages)
          /\ NonSearchBetween(messages, i, k) < WINDOW
          /\ NonSearchBetween(messages, k, MostRecentSearch(messages)) < WINDOW
          /\ NonSearchBetween(messages, i, MostRecentSearch(messages)) >= WINDOW
          /\ ~Includes(activeSearchWidgetIds, messages[i].id)
          /\ Includes(activeSearchWidgetIds, messages[k].id)

-----------------------------------------------------------------------------
(* The chat page with a mounted message list *)

\* the state the handlers of one event work on; calls starts empty
World ==
    [m |-> messages, w |-> widgets, a |-> activeSearchWidgetIds,
     p |-> processedMsgIds, page |-> pageSelected, calls |-> <<>>]

Commit(settled) == \E world \in {settled} :
    /\ messages' = world.m
    /\ widgets' = world.w
    /\ activeSearchWidgetIds' = world.a
    /\ processedMsgIds' = world.p
    /\ pageSelected' = world.page
    /\ calls' = world.calls

\* an event the widget ignores: nothing but the record of the event changes
Ignored ==
    /\ calls' = <<>>
    /\ UNCHANGED <<messages, widgets, activeSearchWidgetIds, processedMsgIds,
                   pageSelected>>

Op(name, i, c, accepted) ==
    [op |-> name, msg |-> messages[i].id, case |-> c, accepted |-> accepted,
     before |-> messages[i].selectedCases]

Mounted == lastOp.op # "none"

\* the message shows a SearchWidget / a CaseResultList
ShowsSearchWidget(msg) ==
    RendersWidget(msg) /\ (variant = "latest" \/ msg.showSearchWidget)

ShowsResultList(msg) ==
    \/ variant = "window" /\ RendersWidget(msg) /\ ~msg.showSearchWidget
    \/ variant = "basic" /\ RendersWidget(msg)

\* the cases prop of CaseResultList: the array parsed from the text in the
\* first branch of renderMessage, chat.cases in the second
ResultListCases(msg) ==
    IF RendersFromJson(msg) THEN JsonCases(msg) ELSE msg.cases

\* the rows the user clicks in a list: the first row not yet marked and the
\* last marked row
ClickTargets(list, marked) ==
    LET un == {k \in 1..Len(list) : list[k] \notin marked}
        se == {k \in 1..Len(list) : list[k] \in marked}
    IN {list[k] : k \in {j \in un : \A h \in un : j <= h}}
       \cup {list[k] : k \in {j \in se : \A h \in se : j >= h}}

\* the pages a search returns for the widget of msg: the cases of the message
\* text again, another page, or nothing (which also stands for a failed
\* fetch); a further page that is appended on scroll
ResultPages(msg, append) ==
    IF append THEN {<<3>>} ELSE {msg.payload, <<1, 2>>, <<>>}

\* the histories fetchHistory loads: one case-search message with more cases
\* than can be selected, or two short ones with a run of plain messages
\* between them
LoadedGaps == {0, WINDOW}

LoadedHistories ==
    {<<Message(1, "bot", f, UpTo(NumCases))>> : f \in {"direct", "fenced"}}
    \cup {<<Message(1, "bot", f, <<1, 2>>)>>
            \o NonSearchRun(2, g, "plain")
            \o <<Message(g + 2, "bot", "fenced", <<1, 2>>)>> :
          f \in {"direct", "fenced"}, g \in LoadedGaps}

Init ==
    /\ variant \in {"window", "latest"}
    /\ messages \in LoadedHistories
    /\ widgets = [i \in 1..Len(messages) |-> NoWidget]
    /\ activeSearchWidgetIds = <<>>
    /\ processedMsgIds = {}
    /\ pageSelected = NoSelection
    /\ error = "null"
    /\ calls = <<>>
    /\ pcSend = "idle"
    /\ requests = <<>>
    /\ classifyRuns = NoRuns
    /\ activeCid = FirstCid
    /\ pcHistory = NoCid
    /\ lastOp = NoOp

\* ChatMessageList mounts: first render and classification effect
Mount ==
    /\ ~Mounted
    /\ \E w1 \in {World} : Commit(Settle(variant, w1))
    /\ classifyRuns' = CountRuns(variant, messages, processedMsgIds, classifyRuns)
    /\ lastOp' = [NoOp EXCEPT !.op = "mount"]
    /\ UNCHANGED <<variant, error, pcSend, requests, activeCid, pcHistory>>

\* sliding-window revision, SearchWidget row click:
\* !disabled && onCaseSelect && onCaseSelect(result)
OnCaseSelectClick(i, c) ==
    /\ Mounted /\ variant = "window"
    /\ ShowsSearchWidget(messages[i])
    /\ c \in ClickTargets(widgets[i].swResults, Range(messages[i].selectedCases))
    /\ IF WidgetDisabled(activeSearchWidgetIds, messages[i].id)
       THEN Ignored /\ lastOp' = Op("onCaseSelect", i, c, FALSE)
       ELSE /\ \E w1 \in {OnCaseSelect(variant, World, i, c)} :
                  Commit(Settle(variant, w1))
            /\ lastOp' = Op("onCaseSelect", i, c, TRUE)
    /\ UNCHANGED <<variant, error, pcSend, requests, activeCid, pcHistory, classifyRuns>>

\* CaseResultList checkbox: !disabled && handleCheckboxChange(caseItem);
\* the revision of ChatMessageList.tsx passes no disabled prop
CheckboxChange(i, c) ==
    /\ Mounted
    /\ ShowsResultList(messages[i])
    /\ c \in ClickTargets(ResultListCases(messages[i]), Range(widgets[i].crlSelected))
    /\ IF variant # "basic" /\ WidgetDisabled(activeSearchWidgetIds, messages[i].id)
       THEN Ignored /\ lastOp' = Op("checkbox", i, c, FALSE)
       ELSE /\ \E updatedCases \in {ToggleInList(widgets[i].crlSelected, c)} :
                \E w1 \in {[World EXCEPT !.w[i].crlSelected = updatedCases]} :
                \E w2 \in {HandleCaseSelection(w1, i, updatedCases)} :
                   Commit(Settle(variant, w2))
            /\ lastOp' = Op("checkbox", i, c, TRUE)
    /\ UNCHANGED <<variant, error, pcSend, requests, activeCid, pcHistory, classifyRuns>>

\* latest-only revision, SearchWidget.toggleCaseSelection(result) and the
\* selection effect that runs after the re-render
ToggleCaseSelection(i, c) ==
    /\ Mounted /\ variant = "latest"
    /\ ShowsSearchWidget(messages[i])
    /\ c \in ClickTargets(widgets[i].swResults, widgets[i].swSelected)
    /\ IF WidgetDisabled(activeSearchWidgetIds, messages[i].id)
       THEN Ignored /\ lastOp' = Op("toggleCaseSelection", i, c, FALSE)
       ELSE /\ \E w1 \in {[World EXCEPT !.w[i].swSelected = ToggleInSet(@, c)]} :
                \E w2 \in {OnCaseSelect(variant, w1, i, c)} :
                \E w3 \in {Settle(variant, w2)} :
                \E w4 \in {SelectionEffect(w3, i)} :
                   Commit(IF w4.calls # w3.calls THEN Settle(variant, w4) ELSE w4)
            /\ lastOp' = Op("toggleCaseSelection", i, c, TRUE)
    /\ UNCHANGED <<variant, error, pcSend, requests, activeCid, pcHistory, classifyRuns>>

\* sliding-window revision, toggleSearchWidget(messageId, !showSearchWidget);
\* the button is rendered for active widgets only, the other component mounts
ToggleSearchWidget(i) ==
    /\ Mounted /\ variant = "window"
    /\ RendersWidget(messages[i])
    /\ Includes(activeSearchWidgetIds, messages[i].id)
    /\ \E w1 \in {[World EXCEPT !.m[i].showSearchWidget = ~@, !.w[i] = NoWidget]} :
          Commit(Settle(variant, w1))
    /\ lastOp' = Op("toggleSearchWidget", i, 0, TRUE)
    /\ UNCHANGED <<variant, error, pcSend, requests, activeCid, pcHistory, classifyRuns>>

\* SearchWidget.fetchResults completes with a page of cases; with append the
\* page is added to the results already shown
FetchResults(i, page, append) ==
    /\ Mounted
    /\ ShowsSearchWidget(messages[i])
    /\ append => /\ widgets[i].swResults # <<>>
                 /\ page # <<>>
                 /\ Range(page) \cap Range(widgets[i].swResults) = {}
    /\ \E loaded \in {IF append THEN widgets[i].swResults \o page ELSE page} :
       \E w1 \in {[World EXCEPT !.w[i].swResults = loaded]} :
       \E w2 \in {HandleSearchResults(w1, i, loaded)} :
          Commit(Settle(variant, w2))
    /\ lastOp' = Op("fetchResults", i, 0, TRUE)
    /\ UNCHANGED <<variant, error, pcSend, requests, activeCid, pcHistory, classifyRuns>>

Next ==
    \/ Mount
    \/ \E i \in 1..Len(messages), c \in 1..NumCases : OnCaseSelectClick(i, c)
    \/ \E i \in 1..Len(messages), c \in 1..NumCases : CheckboxChange(i, c)
    \/ \E i \in 1..Len(messages), c \in 1..NumCases : ToggleCaseSelection(i, c)
    \/ \E i \in 1..Len(messages) : ToggleSearchWidget(i)
    \/ \E i \in 1..Len(messages), append \in BOOLEAN :
          \E page \in ResultPages(messages[i], append) : FetchResults(i, page, append)

Spec == Init /\ [][Next]_vars

-----------------------------------------------------------------------------
(* Message texts the classifier is applied to *)

\* how many cases a generated payload carries at most
MaxCases == 2

CaseIds == <<"1", "2", "3", "4">>

\* a case of the payload: with all three fields, without summary, or with
\* nothing but its id
CaseShapes == {"full", "noSummary", "idOnly"}

CaseObject(id, shape) ==
    IF shape = "full"
    THEN JObject(<<<<"id">>, <<"title">>, <<"summary">>>>,
                 <<JString(<<id>>), JString(<<"T">>), JString(<<"S">>)>>)
    ELSE IF shape = "noSummary"
    THEN JObject(<<<<"id">>, <<"title">>>>, <<JString(<<id>>), JString(<<"T">>)>>)
    ELSE JObject(<<<<"id">>>>, <<JString(<<id>>)>>)

\* a payload is described by the shapes of its cases and by the order of
\* its two members
Descriptors ==
    {[shapes |-> sh, order |-> o] :
        sh \in UNION {[1..n -> CaseShapes] : n \in 0..MaxCases},
        o \in {"typeFirst", "dataFirst"}}

CasesOf(d) == [k \in 1..Len(d.shapes) |-> CaseObject(CaseIds[k], d.shapes[k])]

\* { type: 'CASE_SEARCH_RESULTS', data: { cases: [...] } }
Payload(d) ==
    LET type == JString(<<CASE_SEARCH_RESULTS>>)
        data == JObject(<<<<"cases">>>>, <<JArray(CasesOf(d))>>)
    IN IF d.order = "typeFirst"
       THEN JObject(<<<<"type">>, <<"data">>>>, <<type, data>>)
       ELSE JObject(<<<<"data">>, <<"type">>>>, <<data, type>>)

Wrappings ==
    {"direct", "fenceAtStart", "fenceAfterIntro", "plainFenceAfterIntro",
     "quoted", "embedded"}

\* the text an agent reply carries the serialized payload in
Wrap(wrapping, json) ==
    IF wrapping = "direct" THEN json
    ELSE IF wrapping = "fenceAtStart" THEN <<FENCE_JSON, NL>> \o json \o <<NL, FENCE>>
    ELSE IF wrapping = "fenceAfterIntro"
         THEN <<"Results", NL, FENCE_JSON, NL>> \o json \o <<NL, FENCE>>
    ELSE IF wrapping = "plainFenceAfterIntro"
         THEN <<"Results", NL, FENCE, NL>> \o json \o <<NL, FENCE>>
    ELSE IF wrapping = "quoted" THEN <<Q>> \o Escape(json) \o <<Q>>
    ELSE <<"Results", NL>> \o json \o <<NL, "done">>

PayloadText(wrapping, d) == Wrap(wrapping, Stringify(Payload(d)))

\* the same text with the key type spelled with a \u escape
EscapedKey(text) ==
    [i \in 1..Len(text) |-> IF text[i] = "type" THEN U_TYPE ELSE text[i]]

OneCase == [shapes |-> <<"noSummary">>, order |-> "typeFirst"]

\* texts that are not serialized payloads: ordinary prose, broken JSON,
\* JSON of another kind, fences that are empty or never closed
OtherTexts ==
    {<<>>,
     <<"hello">>,
     <<"# Case Details", NL, "hello">>,
     <<"null">>,
     <<Q, "hello", Q>>,
     <<"{", "}">>,
     <<"{", "hello">>,
     Stringify(JObject(<<<<"type">>>>, <<JString(<<CASE_SEARCH_RESULTS>>)>>)),
     Stringify(JObject(<<<<"type">>, <<"data">>>>,
                       <<JString(<<CASE_SEARCH_RESULTS>>),
                         JObject(<<<<"cases">>>>, <<JString(<<"1">>)>>)>>)),
     Stringify(JObject(<<<<"type">>, <<"data">>>>,
                       <<JString(<<"CASE_DETAILS">>),
                         JObject(<<<<"cases">>>>, <<JArray(CasesOf(OneCase))>>)>>)),
     Wrap("fenceAfterIntro",
          Stringify(JObject(<<<<"data">>>>,
                            <<JObject(<<<<"cases">>>>, <<JArray(CasesOf(OneCase))>>)>>))),
     SubSeq(PayloadText("direct", OneCase), 1, Len(PayloadText("direct", OneCase)) - 1),
     SubSeq(PayloadText("fenceAfterIntro", OneCase), 1,
            Len(PayloadText("fenceAfterIntro", OneCase)) - 1),
     <<"Results", NL, FENCE_JSON, FENCE>>,
     <<"Results", NL, FENCE, NL, "hello", NL, FENCE>>,
     <<Q, BSQ, FENCE_JSON, "{", Q, "type", Q, "}", FENCE, Q>>,
     <<Q, BSQ, "hello", BSQ>>,
     EscapedKey(PayloadText("fenceAfterIntro", OneCase)),
     EscapedKey(PayloadText("embedded", OneCase)),
     <<Q>> \o Escape(PayloadText("direct", OneCase)) \o <<NL, Q>>}

Texts ==
    {PayloadText(w, d) : w \in Wrappings, d \in Descriptors} \cup OtherTexts

\* a message list with a single bot message that fetchHistory loaded
InitClassifier ==
    /\ variant \in {"window", "latest"}
    /\ messages \in {<<TextMessage(1, "bot", text)>> : text \in Texts}
    /\ widgets = [i \in 1..Len(messages) |-> NoWidget]
    /\ activeSearchWidgetIds = <<>>
    /\ processedMsgIds = {}
    /\ pageSelected = NoSelection
    /\ error = "null"
    /\ calls = <<>>
    /\ pcSend = "idle"
    /\ requests = <<>>
    /\ classifyRuns = NoRuns
    /\ activeCid = FirstCid
    /\ pcHistory = NoCid
    /\ lastOp = NoOp

NextClassifier == Mount

SpecClassifier == InitClassifier /\ [][NextClassifier]_vars

-----------------------------------------------------------------------------
(* Sending: ChatPage.handleSendMessage and the submit of a selection *)

\* the id of a case as characters
IdOf(c) == Get(c, "id").s

\* cases.map(c => c.id).join(', ')
RECURSIVE JoinIds(_)
JoinIds(cases) ==
    IF cases = <<>> THEN <<>>
    ELSE IF Len(cases) = 1 THEN IdOf(cases[1])
    ELSE IdOf(cases[1]) \o <<", ">> \o JoinIds(Tail(cases))

\* a query that puts the ids in reverse order
formatSelectedCasesQuery_Reversed(cases) ==
    IF Len(cases) = 0 THEN <<>>
    ELSE IF Len(cases) = 1 THEN <<"Tell me more about case number ">> \o IdOf(cases[1])
    ELSE <<"Tell me more about these cases: ">>
         \o JoinIds([k \in 1..Len(cases) |-> cases[Len(cases) + 1 - k]])

\* a query that uses the plural sentence for a single case too
formatSelectedCasesQuery_AlwaysPlural(cases) ==
    IF Len(cases) = 0 THEN <<>>
    ELSE <<"Tell me more about these cases: ">> \o JoinIds(cases)

\* caseParser.formatSelectedCasesQuery(cases)
formatSelectedCasesQuery(cases) ==
    IF Len(cases) = 0 THEN <<>>
    ELSE IF Len(cases) = 1 THEN <<"Tell me more about case number ">> \o IdOf(cases[1])
    ELSE <<"Tell me more about these cases: ">> \o JoinIds(cases)

IsSending == pcSend # "idle"

\* the bot messages that hold a selection, newest last
WithSelectedCases(msgs) ==
    {i \in 1..Len(msgs) : msgs[i].sender = "bot" /\ Len(msgs[i].selectedCases) > 0}

\* requestBody of handleSendMessage: the ids selected on the latest bot
\* message that has a selection go with the text
RequestBody(clean, msgs) ==
    LET holders == WithSelectedCases(msgs)
        latest == CHOOSE i \in holders : \A j \in holders : j <= i
    IN [message |-> clean,
        cid |-> activeCid,
        selectedCaseIds |->
            IF holders = {} THEN <<>>
            ELSE [k \in 1..Len(msgs[latest].selectedCases) |->
                     IdOf(msgs[latest].selectedCases[k])]]

\* ids of the messages of the k-th send: u-..., thinking-..., b-...
UserMsgId(k) == 10 * k + 1

ThinkingId(k) == 10 * k + 2

BotMsgId(k) == 10 * k + 3

\* the page holds the history msgs while ChatMessageList is not rendered:
\* the list is unmounted, its refs and the state of its widgets are gone
Unmounted(msgs, page) ==
    /\ messages' = msgs
    /\ widgets' = [i \in 1..Len(msgs) |-> NoWidget]
    /\ activeSearchWidgetIds' = <<>>
    /\ processedMsgIds' = {}
    /\ pageSelected' = page
    /\ calls' = <<>>
    /\ UNCHANGED classifyRuns

\* the page re-renders with the history msgs; where the list is rendered
\* its effect runs once over the new history
HistoryChanged(msgs, wids, page) ==
    IF ListRendered(msgs, pcHistory)
    THEN /\ \E w1 \in {[World EXCEPT !.m = msgs, !.w = wids, !.page = page]} :
               Commit(Settle(variant, w1))
         /\ classifyRuns' = CountRuns(variant, msgs, processedMsgIds, classifyRuns)
    ELSE Unmounted(msgs, page)

\* handleSendMessage up to its first await: the user message and the
\* thinking message are appended and the request leaves
Posted(txt, page) ==
    \E k \in {Len(requests) + 1}, clean \in {Trim(txt)} :
        /\ HistoryChanged(messages \o <<TextMessage(UserMsgId(k), "user", clean),
                                        TextMessage(ThinkingId(k), "bot", <<"...">>)>>,
                          widgets \o <<NoWidget, NoWidget>>, page)
        /\ requests' = Append(requests, RequestBody(clean, messages))
        /\ pcSend' = "fetch"
        /\ error' = "null"

\* nothing leaves; the page keeps its history and holds the selection page
NotPosted(page) ==
    /\ pageSelected' = page
    /\ calls' = <<>>
    /\ UNCHANGED <<messages, widgets, activeSearchWidgetIds, processedMsgIds,
                   error, pcSend, requests, classifyRuns>>

\* a page that does not look at isSending
handleSendMessage_WhileSending(txt, page) ==
    IF activeCid = NoCid \/ Trim(txt) = <<>>
    THEN NotPosted(page)
    ELSE Posted(txt, page)

\* handleSendMessage(txt), after which the page holds the selection page
handleSendMessage(txt, page) ==
    IF activeCid = NoCid \/ Trim(txt) = <<>> \/ IsSending
    THEN NotPosted(page)
    ELSE Posted(txt, page)

\* a page that clears its selection on submit and sends nothing
onCaseSelectionSubmit_OnlyClears(cases) == NotPosted(NoSelection)

\* onCaseSelectionSubmit of ChatPage
onCaseSelectionSubmit(cases) ==
    IF Len(cases) > 0 /\ formatSelectedCasesQuery(cases) # <<>>
    THEN handleSendMessage(formatSelectedCasesQuery(cases), NoSelection)
    ELSE NotPosted(pageSelected)

\* a submit wired to the request without any of the guards
handleSubmit_Unguarded(selectedCases) ==
    Posted(formatSelectedCasesQuery(selectedCases), NoSelection)

\* CaseResultList.handleSubmit, then handleCaseSelectionSubmit of the list
handleSubmit(selectedCases) ==
    IF Len(selectedCases) > 0 THEN onCaseSelectionSubmit(selectedCases)
    ELSE NotPosted(pageSelected)

\* the histories the chat starts from: a question of the user and the
\* case-search reply to it, with two cases or with one
TwoCases == [shapes |-> <<"full", "noSummary">>, order |-> "typeFirst"]

LoneCase == [shapes |-> <<"idOnly">>, order |-> "dataFirst"]

ChatHistories ==
    {<<TextMessage(1, "user", <<"hello">>),
       TextMessage(2, "bot", PayloadText("direct", TwoCases))>>,
     <<TextMessage(1, "user", <<"hello">>),
       TextMessage(2, "bot", PayloadText("fenceAfterIntro", LoneCase))>>}

\* what the user types: a question, or blanks only
TypedTexts == {<<"hello", NL>>, <<NL>>}

\* the replies of the agent: prose or a case-search payload
Replies == {<<"hello">>, PayloadText("direct", LoneCase)}

InitChat ==
    /\ variant \in {"window", "basic"}
    /\ messages \in ChatHistories
    /\ widgets = [i \in 1..Len(messages) |-> NoWidget]
    /\ activeSearchWidgetIds = <<>>
    /\ processedMsgIds = {}
    /\ pageSelected = NoSelection
    /\ error = "null"
    /\ calls = <<>>
    /\ pcSend = "idle"
    /\ requests = <<>>
    /\ classifyRuns = NoRuns
    /\ activeCid = FirstCid
    /\ pcHistory = NoCid
    /\ lastOp = NoOp

\* a send is in flight, or the user has not yet sent MaxSends messages
SendsLeft == IsSending \/ Len(requests) < MaxSends

\* the user sends the text typed into the input
SendMessage(txt) ==
    /\ Mounted
    /\ SendsLeft
    /\ handleSendMessage(txt, pageSelected)
    /\ lastOp' = [NoOp EXCEPT !.op = "send", !.accepted = (requests' # requests)]
    /\ UNCHANGED <<variant, activeCid, pcHistory>>

\* handleSubmit of the CaseResultList of message i runs (its button is
\* rendered while the list holds a selection and is disabled with the list)
Submit(i) ==
    /\ Mounted
    /\ SendsLeft
    /\ ShowsResultList(messages[i])
    /\ IF variant # "basic" /\ WidgetDisabled(activeSearchWidgetIds, messages[i].id)
       THEN NotPosted(pageSelected)
       ELSE handleSubmit(widgets[i].crlSelected)
    /\ lastOp' = [op |-> "submit", msg |-> messages[i].id, case |-> 0,
                  accepted |-> (requests' # requests),
                  before |-> widgets[i].crlSelected]
    /\ UNCHANGED <<variant, activeCid, pcHistory>>

\* a send without the finally block: after a response that is not ok
\* isSending stays true
Respond_NoFinally(ok) ==
    /\ pcSend = "fetch"
    /\ \E keep \in {{i \in 1..Len(messages) : messages[i].id # ThinkingId(Len(requests))}} :
          HistoryChanged(SelectSeq(messages, LAMBDA m : m.id # ThinkingId(Len(requests))),
                         [k \in 1..Cardinality(keep) |->
                             widgets[CHOOSE i \in keep :
                                        Cardinality({j \in keep : j <= i}) = k]],
                         pageSelected)
    /\ pcSend' = IF ok THEN "json" ELSE "failed"
    /\ error' = IF ok THEN error ELSE "agent error"
    /\ lastOp' = [NoOp EXCEPT !.op = "respond", !.accepted = ok]
    /\ UNCHANGED <<variant, requests, activeCid, pcHistory>>

\* the response of /api/agent arrives: the thinking message is removed; a
\* response that is not ok ends the send with an error
Respond(ok) ==
    /\ pcSend = "fetch"
    /\ \E keep \in {{i \in 1..Len(messages) : messages[i].id # ThinkingId(Len(requests))}} :
          HistoryChanged(SelectSeq(messages, LAMBDA m : m.id # ThinkingId(Len(requests))),
                         [k \in 1..Cardinality(keep) |->
                             widgets[CHOOSE i \in keep :
                                        Cardinality({j \in keep : j <= i}) = k]],
                         pageSelected)
    /\ pcSend' = IF ok THEN "json" ELSE "idle"
    /\ error' = IF ok THEN error ELSE "agent error"
    /\ lastOp' = [NoOp EXCEPT !.op = "respond", !.accepted = ok]
    /\ UNCHANGED <<variant, requests, activeCid, pcHistory>>

\* a reply that is put in the place of the history
Deliver_ReplacesHistory(text) ==
    /\ pcSend = "json"
    /\ HistoryChanged(<<TextMessage(BotMsgId(Len(requests)), "bot", text)>>,
                      <<NoWidget>>, pageSelected)
    /\ pcSend' = "idle"
    /\ lastOp' = [NoOp EXCEPT !.op = "deliver", !.accepted = TRUE]
    /\ UNCHANGED <<variant, error, requests, activeCid, pcHistory>>

\* res.json() resolves: the reply is appended and the send is over
Deliver(text) ==
    /\ pcSend = "json"
    /\ HistoryChanged(Append(messages, TextMessage(BotMsgId(Len(requests)), "bot", text)),
                      Append(widgets, NoWidget), pageSelected)
    /\ pcSend' = "idle"
    /\ lastOp' = [NoOp EXCEPT !.op = "deliver", !.accepted = TRUE]
    /\ UNCHANGED <<variant, error, requests, activeCid, pcHistory>>

\* authFetch or res.json() throws: the catch block sets the error and
\* removes the thinking message, the finally block ends the send
Rejects ==
    /\ IsSending
    /\ \E keep \in {{i \in 1..Len(messages) : messages[i].id # ThinkingId(Len(requests))}} :
          HistoryChanged(SelectSeq(messages, LAMBDA m : m.id # ThinkingId(Len(requests))),
                         [k \in 1..Cardinality(keep) |->
                             widgets[CHOOSE i \in keep :
                                        Cardinality({j \in keep : j <= i}) = k]],
                         pageSelected)
    /\ pcSend' = "idle"
    /\ error' = "thrown"
    /\ lastOp' = [NoOp EXCEPT !.op = "rejects"]
    /\ UNCHANGED <<variant, requests, activeCid, pcHistory>>

\* (the events of the widgets are followed as long as a send is in flight
\* or can still be made)
NextChat ==
    \/ Mount
    \/ \E i \in 1..Len(messages) : SendsLeft /\ ToggleSearchWidget(i)
    \/ \E i \in 1..Len(messages) :
          \E c \in Range(ResultListCases(messages[i])) :
             SendsLeft /\ CheckboxChange(i, c)
    \/ \E txt \in TypedTexts : SendMessage(txt)
    \/ \E i \in 1..Len(messages) : Submit(i)
    \/ \E ok \in BOOLEAN : Respond(ok)
    \/ \E text \in Replies : Deliver(text)
    \/ Rejects

SpecChat == InitChat /\ [][NextChat]_vars

-----------------------------------------------------------------------------
(* Conversations: the shelf, fetchHistory and a send in flight *)

\* what /api/agent/history returns for a conversation
HistoryOf(cid) ==
    IF cid = FirstCid
    THEN <<TextMessage(1, "user", <<"hello">>),
           TextMessage(2, "bot", PayloadText("direct", TwoCases))>>
    ELSE <<TextMessage(3, "bot", <<"hello">>)>>

\* onSelectConversation: setActiveCid(id); the effect on activeCid calls
\* fetchHistory, which returns at once if the render that made it saw
\* historyLoading, and else empties the history and asks for the new one.
\* (Conversations are opened in the order of the shelf, each once.)
SelectConversation(cid) ==
    /\ Mounted
    /\ cid > activeCid
    /\ activeCid' = cid
    /\ IF HistoryLoading(pcHistory)
       THEN /\ calls' = <<>>
            /\ UNCHANGED <<messages, widgets, activeSearchWidgetIds, processedMsgIds,
                           pageSelected, pcHistory>>
       ELSE /\ pcHistory' = cid
            /\ Unmounted(<<>>, pageSelected)
    /\ lastOp' = [NoOp EXCEPT !.op = "select"]
    /\ UNCHANGED <<variant, error, pcSend, requests, classifyRuns>>

\* the history request of fetchHistory ends: setMessages(history), or the
\* error banner; historyLoading is false again and the list is rendered
\* over what the page then holds
HistoryArrives(ok) ==
    /\ HistoryLoading(pcHistory)
    /\ pcHistory' = NoCid
    /\ \E msgs \in {IF ok THEN HistoryOf(pcHistory) ELSE messages} :
          IF ListRendered(msgs, NoCid)
          THEN /\ \E w1 \in {[World EXCEPT !.m = msgs,
                                            !.w = [i \in 1..Len(msgs) |-> NoWidget]]} :
                     Commit(Settle(variant, w1))
               /\ classifyRuns' = CountRuns(variant, msgs, processedMsgIds, classifyRuns)
          ELSE Unmounted(msgs, pageSelected)
    /\ error' = IF ok THEN error ELSE "history error"
    /\ lastOp' = [NoOp EXCEPT !.op = "history", !.accepted = ok]
    /\ UNCHANGED <<variant, pcSend, requests, activeCid>>

NextConversations ==
    \/ Mount
    \/ \E txt \in TypedTexts : SendMessage(txt)
    \/ \E ok \in BOOLEAN : Respond(ok)
    \/ \E text \in Replies : Deliver(text)
    \/ Rejects
    \/ \E cid \in Cids : SelectConversation(cid)
    \/ \E ok \in BOOLEAN : HistoryArrives(ok)

SpecConversations == InitChat /\ [][NextConversations]_vars

\* The same page under the assumption that a request that was sent ends:
\* the promise of authFetch settles, and so does the promise of res.json()
\* (each may also be rejected, which is the step Rejects).
SpecSendsEnd ==
    /\ InitChat
    /\ [][NextConversations]_vars
    /\ WF_vars(\E ok \in BOOLEAN : Respond(ok))
    /\ WF_vars(\E text \in Replies : Deliver(text))

-----------------------------------------------------------------------------
(* A longer history under the sliding window *)

\* a plain question or answer
PlainMessage(id) ==
    TextMessage(id, IF id % 2 = 0 THEN "user" ELSE "bot", <<"hello">>)

\* the history loaded: the case-search reply of the agent and, after it,
\* one message less than the window holds
LongHistory ==
    <<TextMessage(1, "bot", PayloadText("direct", TwoCases))>>
        \o [k \in 1..(WINDOW - 1) |-> PlainMessage(k + 1)]

InitWindow ==
    /\ variant = "window"
    /\ messages = LongHistory
    /\ widgets = [i \in 1..Len(messages) |-> NoWidget]
    /\ activeSearchWidgetIds = <<>>
    /\ processedMsgIds = {}
    /\ pageSelected = NoSelection
    /\ error = "null"
    /\ calls = <<>>
    /\ pcSend = "idle"
    /\ requests = <<>>
    /\ classifyRuns = NoRuns
    /\ activeCid = FirstCid
    /\ pcHistory = NoCid
    /\ lastOp = NoOp

SpecWindow == InitWindow /\ [][NextChat]_vars

-----------------------------------------------------------------------------
(* Vocabulary of the selection claims *)

\* the last event was a click that toggles a case in a widget
IsToggleOp(o) == o.op \in {"onCaseSelect", "checkbox", "toggleCaseSelection"}

\* the selection stored on the message with the given id
SelectedOf(msgs, id) ==
    msgs[CHOOSE k \in 1..Len(msgs) : msgs[k].id = id].selectedCases

-----------------------------------------------------------------------------
(* Selection claims, checked under Spec *)

\* C1: no message's selectedCases ever holds more than 10 cases, whatever
\* selection events (SearchWidget onCaseSelect and onSelectionChange,
\* CaseResultList checkbox changes) have been applied to it.
C1_SelectionNeverExceedsCap ==
    \A i \in 1..Len(messages) : Len(messages[i].selectedCases) <= MAX_SELECTED

\* C2: in every reachable state every selected case of a message is one of
\* that message's cases, also after handleSearchResults replaced the cases.
C2_SelectedSubsetOfCases ==
    \A i \in 1..Len(messages) :
        Range(messages[i].selectedCases)
            \subseteq (IF messages[i].hasCases THEN Range(messages[i].cases) ELSE {})

\* C3: a toggle arriving for a message whose id is not in the active-widget
\* set changes no message (so its selectedCases stays as it was), does not
\* invoke the onCaseSelection callback and leaves the page's selection alone.
C3_InactiveToggleIsNoOp ==
    [][(IsToggleOp(lastOp') /\ ~Includes(activeSearchWidgetIds, lastOp'.msg))
          => /\ messages' = messages
             /\ calls' = <<>>
             /\ pageSelected' = pageSelected]_vars

\* C3 witness: a row of an inactive widget was clicked while the page held the
\* selection made in the active widget; nothing was notified.
C3_Witness ==
    /\ IsToggleOp(lastOp)
    /\ ~Includes(activeSearchWidgetIds, lastOp.msg)
    /\ \E i \in 1..Len(messages) :
          messages[i].id = lastOp.msg /\ RendersWidget(messages[i])
    /\ calls = <<>>
    /\ pageSelected.messageId \notin {0, lastOp.msg}
    /\ pageSelected.cases # <<>>

\* C7: a toggle on message A leaves the selectedCases of every other message
\* as it was, and the selection the page holds for another message B is
\* neither cleared nor overwritten by it.
C7_ToggleLeavesOtherSelections ==
    [][IsToggleOp(lastOp')
          => /\ \A j \in 1..Len(messages) :
                   messages[j].id # lastOp'.msg
                      => messages'[j].selectedCases = messages[j].selectedCases
             /\ pageSelected.messageId \notin {0, lastOp'.msg}
                   => pageSelected' = pageSelected]_vars

\* C8: toggling the same case on the same active message twice in a row leaves
\* the message with the cases it had selected before the first toggle.
C8_ToggleTwiceRestores ==
    [][(/\ IsToggleOp(lastOp) /\ lastOp.accepted
        /\ IsToggleOp(lastOp') /\ lastOp'.accepted
        /\ lastOp'.msg = lastOp.msg /\ lastOp'.case = lastOp.case)
          => Range(SelectedOf(messages', lastOp.msg)) = Range(lastOp.before)]_vars

\* C9: an add attempted on a message whose selection already has 10 cases
\* leaves the selection exactly as it was and does not change the error state.
C9_AddAtCapRejected ==
    [][(/\ IsToggleOp(lastOp') /\ lastOp'.accepted
        /\ Len(lastOp'.before) = MAX_SELECTED
        /\ ~Includes(lastOp'.before, lastOp'.case))
          => /\ SelectedOf(messages', lastOp'.msg) = lastOp'.before
             /\ error' = error]_vars

\* C10: after every toggle accepted on an active message the onCaseSelection
\* callback has been invoked, and its last invocation carries that message's
\* id and exactly the selection now stored as the message's selectedCases.
C10_ToggleNotifiesStoredSelection ==
    (IsToggleOp(lastOp) /\ lastOp.accepted)
        => /\ Len(calls) > 0
           /\ calls[Len(calls)] =
                 [messageId |-> lastOp.msg,
                  cases |-> SelectedOf(messages, lastOp.msg)]

\* C10 witness: a toggle changed a non-empty selection into another non-empty
\* one, and the callback received the new one.
C10_Witness ==
    /\ IsToggleOp(lastOp) /\ lastOp.accepted
    /\ lastOp.before # <<>>
    /\ SelectedOf(messages, lastOp.msg) # <<>>
    /\ SelectedOf(messages, lastOp.msg) # lastOp.before
    /\ Len(calls) > 0
    /\ calls[Len(calls)].cases = SelectedOf(messages, lastOp.msg)

-----------------------------------------------------------------------------
(* Vocabulary of the classification claims *)

\* the cases of the payload as the claims expect them after classification:
\* in payload order, every missing field an empty string
ExpectedCases(d) ==
    [k \in 1..Len(d.shapes) |->
        JObject(<<<<"id">>, <<"title">>, <<"summary">>>>,
                <<JString(<<CaseIds[k]>>),
                  IF d.shapes[k] \in {"full", "noSummary"}
                  THEN JString(<<"T">>) ELSE JString(<<>>),
                  IF d.shapes[k] = "full" THEN JString(<<"S">>) ELSE JString(<<>>)>>)]

\* msg holds the cases of payload d, in the order of the payload
HoldsCasesOf(msg, d) ==
    /\ msg.hasCases
    /\ Len(msg.cases) = Len(d.shapes)
    /\ \A k \in 1..Len(d.shapes) :
          /\ Get(msg.cases[k], "id") = JString(<<CaseIds[k]>>)
          /\ OrEmpty(Get(msg.cases[k], "title")) = ExpectedCases(d)[k].items[2]
          /\ OrEmpty(Get(msg.cases[k], "summary")) = ExpectedCases(d)[k].items[3]

\* the text contains "type" with its double quotes
ContainsTypeKey(text) == \E p \in 1..Len(text) : TypeKeyAt(text, p)

\* the text contains the word type as a quoted string in some spelling: its
\* letters plain or with a \u escape, its quotes plain or backslash-escaped
ContainsQuotedType(text) ==
    \E p \in 2..(Len(text) - 1) :
        /\ text[p] \in {"type", U_TYPE}
        /\ text[p - 1] \in {Q, BSQ}
        /\ text[p + 1] \in {Q, BSQ}

\* the four strategies of tryExtractJSON before their catch blocks
Attempts(text) ==
    <<DirectStrategy(text), FenceStrategy(text), EscapedStrategy(text),
      PatternStrategy(text)>>

-----------------------------------------------------------------------------
(* Classification claims, checked under SpecClassifier *)

\* C11: a bot message whose text is the JSON serialization of a payload with
\* type CASE_SEARCH_RESULTS and an array data.cases is marked as case-search,
\* holds the cases of the payload in payload order, and the list built from
\* it has every case as {id, title, summary} with missing fields empty.
C11_DirectJsonClassified ==
    Mounted =>
        \A d \in Descriptors :
            messages[1].text = PayloadText("direct", d)
                => /\ HoldsCasesOf(messages[1], d)
                   /\ JsonCases(messages[1]) = ExpectedCases(d)
                   /\ d.shapes # <<>> => RendersFromJson(messages[1])

\* C11 witness: the serialization of a payload whose cases lack title and
\* summary has been classified.
C11_Witness ==
    /\ Mounted
    /\ messages[1].text =
          PayloadText("direct", [shapes |-> <<"idOnly", "noSummary">>, order |-> "typeFirst"])
    /\ messages[1].hasCases
    /\ Len(JsonCases(messages[1])) = 2
    /\ Get(JsonCases(messages[1])[1], "summary") = JString(<<>>)

\* C12: a bot message whose text is the payload's JSON inside a json code
\* fence that opens at the first character is classified like the payload
\* itself: it is case-search and holds the same cases.
C12_FenceAtStartLikeUnwrapped ==
    Mounted =>
        \A d \in Descriptors :
            messages[1].text = PayloadText("fenceAtStart", d)
                => HoldsCasesOf(messages[1], d)

\* C13: a bot message whose text is the payload re-serialized as a JSON string
\* literal is classified as case-search with the cases of the payload.
C13_StringLiteralClassified ==
    Mounted =>
        \A d \in Descriptors :
            messages[1].text = PayloadText("quoted", d)
                => HoldsCasesOf(messages[1], d)

\* C14 as stated: a bot message whose text is not JSON and does not contain
\* "type" (with its quotes) gets no cases, is not in the active-widget set
\* and renders without a widget.
C14_NoTypeKeyNoCases ==
    (/\ Mounted
     /\ ~JSONParse(messages[1].text).ok
     /\ ~ContainsTypeKey(messages[1].text))
        => /\ ~messages[1].hasCases
           /\ ~Includes(activeSearchWidgetIds, messages[1].id)
           /\ ~RendersWidget(messages[1])

\* C14 as amended: a bot message whose text is not JSON and does not contain
\* the word type as a quoted string in any spelling (letters plain or written
\* with \u escapes, quotes plain or backslash-escaped) gets no cases, is not
\* in the active-widget set and renders without a widget.
C14_NoQuotedTypeNoCases ==
    (/\ Mounted
     /\ ~JSONParse(messages[1].text).ok
     /\ ~ContainsQuotedType(messages[1].text))
        => /\ ~messages[1].hasCases
           /\ ~Includes(activeSearchWidgetIds, messages[1].id)
           /\ ~RendersWidget(messages[1])

\* C14 witness: a fenced object that has data.cases but no type member was
\* classified and left without cases.
C14_Witness ==
    /\ Mounted
    /\ ~JSONParse(messages[1].text).ok
    /\ ~ContainsQuotedType(messages[1].text)
    /\ FenceStrategy(messages[1].text).kind = "return"
    /\ HasCasesArray(FenceStrategy(messages[1].text).val)
    /\ ~messages[1].hasCases

\* C15: classification of any text completes without an exception leaving
\* it; a strategy whose parse fails hands over to the next one, so the first
\* strategy that returns decides; when none returns the message has no cases
\* and renders as text.
C15_NoExceptionEscapes ==
    Mounted =>
        LET tried == Attempts(messages[1].text)
            returned == {i \in 1..Len(tried) : tried[i].kind = "return"}
            first == CHOOSE i \in returned : \A j \in returned : i <= j
        IN /\ messages[1].form # "threw"
           /\ returned = {}
                 => ~messages[1].hasCases /\ ~RendersWidget(messages[1])
           /\ (/\ returned # {}
               /\ HasSearchType(tried[first].val)
               /\ HasCasesArray(tried[first].val))
                 => messages[1].hasCases

\* C15 witness: a text on which the parse of every one of the four
\* strategies fails was classified and ended without cases.
C15_Witness ==
    /\ Mounted
    /\ \A i \in 1..3 : Attempts(messages[1].text)[i].kind = "throw"
    /\ PatternMatches(messages[1].text, 1) # <<>>
    /\ PatternStrategy(messages[1].text).kind = "goOn"
    /\ messages[1].form = "plain"
    /\ ~messages[1].hasCases

\* C16: a bot message whose payload has type CASE_SEARCH_RESULTS and an empty
\* data.cases is a case-search message on every path: the effect gives it
\* (zero) cases, the renderer shows a widget for it and the resolver counts
\* it as a case-search message.
C16_EmptyCasesIsCaseSearch ==
    Mounted =>
        \A d \in Descriptors, w \in {"direct", "fenceAfterIntro"} :
            (d.shapes = <<>> /\ messages[1].text = PayloadText(w, d))
                => /\ messages[1].hasCases
                   /\ RendersWidget(messages[1])
                   /\ IsSearchMessage(messages[1])

-----------------------------------------------------------------------------
(* Cases against classification, checked under Spec *)

\* C17: in every reachable state a message has cases exactly when the
\* classification of its text found it to be a case-search message, and the
\* cases it has are the ones classification found: no later operation
\* populates, replaces or empties them.
C17_CasesAsClassified ==
    Mounted =>
        \A i \in 1..Len(messages) :
            /\ messages[i].hasCases <=> messages[i].form # "plain"
            /\ messages[i].hasCases => messages[i].cases = messages[i].payload

-----------------------------------------------------------------------------
(* Sending claims, checked under SpecChat *)

\* the query the claims expect for a selection: nothing for no case, the
\* singular sentence for one, the plural sentence with the ids in the order of
\* the selection, separated by comma and blank, for more
ExpectedQuery(selection) ==
    IF selection = <<>> THEN <<>>
    ELSE IF Len(selection) = 1
         THEN <<"Tell me more about case number ", Get(selection[1], "id").s[1]>>
    ELSE <<"Tell me more about these cases: ">>
         \o [k \in 1..(2 * Len(selection) - 1) |->
                IF k % 2 = 1 THEN Get(selection[(k + 1) \div 2], "id").s[1] ELSE ", "]

\* the selections of up to three cases out of a list, in any order
Arrangements(list) ==
    {<<>>}
    \cup {<<list[a]>> : a \in 1..Len(list)}
    \cup {<<list[a], list[b]>> : a, b \in 1..Len(list)}
    \cup {<<list[a], list[b], list[c]>> : a, b, c \in 1..Len(list)}

\* C18: however the history changes while the list is mounted, the
\* classification step of the effect runs at most once for a message id.
C18_ClassifiedAtMostOnce ==
    \A id \in MsgIds : classifyRuns[id] <= 1

\* C19: formatSelectedCasesQuery gives the empty string for no case, "Tell me
\* more about case number {id}" for one case and "Tell me more about these
\* cases: " with the ids joined by ", " in the order of the list for more;
\* a submitted selection goes out as exactly that text.
C19_QueryOfSelection ==
    /\ \A i \in 1..Len(messages) :
          /\ formatSelectedCasesQuery(widgets[i].crlSelected)
                = ExpectedQuery(widgets[i].crlSelected)
          /\ \A selection \in Arrangements(messages[i].cases) :
                formatSelectedCasesQuery(selection) = ExpectedQuery(selection)
    /\ (lastOp.op = "submit" /\ lastOp.accepted)
          => /\ requests[Len(requests)].message = ExpectedQuery(lastOp.before)
             /\ \E i \in 1..Len(messages) :
                   /\ messages[i].id = UserMsgId(Len(requests))
                   /\ messages[i].sender = "user"
                   /\ messages[i].text = ExpectedQuery(lastOp.before)

\* C19 witness: a selection of two cases was submitted and went out as the
\* plural sentence.
C19_Witness ==
    /\ lastOp.op = "submit" /\ lastOp.accepted
    /\ Len(lastOp.before) = 2
    /\ requests[Len(requests)].message
          = <<"Tell me more about these cases: ", "1", ", ", "2">>

\* C20: a submit with an empty selection, whose query is the empty string,
\* appends no user message to the history and sends no agent request.
C20_EmptySubmitSendsNothing ==
    [][(/\ lastOp'.op = "submit"
        /\ lastOp'.before = <<>>
        /\ formatSelectedCasesQuery(lastOp'.before) = <<>>)
          => /\ messages' = messages
             /\ requests' = requests]_vars

\* C20 witness: handleSubmit ran on a list with nothing selected and nothing
\* went out.
C20_Witness ==
    /\ lastOp.op = "submit"
    /\ lastOp.before = <<>>
    /\ ~lastOp.accepted
    /\ requests = <<>>
    /\ pcSend = "idle"

\* the user messages of a history
UserMessages(msgs) == {i \in 1..Len(msgs) : msgs[i].sender = "user"}

\* C21: a submit with a non-empty selection, made while a conversation is
\* active and no send is in flight, appends exactly one user message, whose
\* text is formatSelectedCasesQuery(selection), and then sends the agent
\* request with that text.
C21_SubmitAppendsQueryAndSends ==
    [][(/\ lastOp'.op = "submit"
        /\ Len(lastOp'.before) > 0
        /\ activeCid # NoCid
        /\ ~IsSending
        /\ (variant = "basic"
              \/ ~WidgetDisabled(activeSearchWidgetIds, lastOp'.msg)))
          => /\ Len(messages') = Len(messages) + 2
             /\ \A i \in 1..Len(messages) : messages'[i].id = messages[i].id
             /\ Cardinality(UserMessages(messages'))
                   = Cardinality(UserMessages(messages)) + 1
             /\ messages'[Len(messages) + 1].sender = "user"
             /\ messages'[Len(messages) + 1].text
                   = formatSelectedCasesQuery(lastOp'.before)
             /\ Len(requests') = Len(requests) + 1
             /\ requests'[Len(requests')].message
                   = formatSelectedCasesQuery(lastOp'.before)
             /\ requests'[Len(requests')].cid = activeCid
             /\ pcSend' = "fetch"]_vars

\* C21 witness: one selected case was submitted; its query stands in the
\* history as the user message before the thinking message, and went out.
C21_Witness ==
    /\ lastOp.op = "submit" /\ lastOp.accepted
    /\ Len(lastOp.before) = 1
    /\ pcSend = "fetch"
    /\ Len(requests) = 1
    /\ messages[Len(messages) - 1].sender = "user"
    /\ messages[Len(messages) - 1].text = requests[1].message

-----------------------------------------------------------------------------
(* Claims on the history during a session, checked under SpecConversations *)

\* the ids of a history, oldest first
IdsOf(msgs) == [i \in 1..Len(msgs) |-> msgs[i].id]

\* the message is the thinking message of a send
IsThinking(msg) == \E k \in 1..MaxSends : msg.id = ThinkingId(k)

\* the history without the thinking messages
Lasting(msgs) == SelectSeq(msgs, LAMBDA m : ~IsThinking(m))

\* s is the beginning of t
IsPrefix(s, t) == Len(s) <= Len(t) /\ \A i \in 1..Len(s) : s[i] = t[i]

\* the step replaces the whole history: fetchHistory empties it, or puts
\* the loaded history in its place
Reloads == pcHistory' # pcHistory /\ (HistoryLoading(pcHistory') \/ lastOp'.accepted)

\* C22 as stated: but for a reload that replaces the whole history, every
\* message of the history stays in it at its place: no single message is
\* ever removed.
C22_NoMessageRemoved ==
    [][ ~Reloads => IsPrefix(IdsOf(messages), IdsOf(messages')) ]_vars

\* C22, amended: but for a reload that replaces the whole history, every
\* message of the history other than the thinking message of a send stays
\* in it, in the same order before the messages appended later.
C22_NoLastingMessageRemoved ==
    [][ ~Reloads => IsPrefix(IdsOf(Lasting(messages)), IdsOf(Lasting(messages'))) ]_vars

\* C22 witness: a send went through to its reply; the loaded history, the
\* user message and the reply stand in this order, the thinking message
\* is gone.
C22_Witness ==
    /\ lastOp.op = "deliver"
    /\ IdsOf(messages) = <<1, 2, UserMsgId(1), BotMsgId(1)>>

-----------------------------------------------------------------------------
(* Frame of the resolver, checked under SpecResolver *)

-----------------------------------------------------------------------------
(* From the reply to the query, checked under SpecChat *)

\* the texts that carry a payload with the single case of id CaseIds[1]
SingleCaseTexts == {PayloadText(w, LoneCase) : w \in {"direct", "fenceAfterIntro"}}

\* C24: a bot message whose text carries a CASE_SEARCH_RESULTS payload with
\* the single case of id X has arrived and is classified; the user ticks that
\* case in its widget and submits: the user message appended has the text
\* "Tell me more about case number X".
C24_SingleCaseEndToEnd ==
    [][\A i \in 1..Len(messages) :
          (/\ lastOp'.op = "submit"
           /\ lastOp'.msg = messages[i].id
           /\ messages[i].text \in SingleCaseTexts
           /\ messages[i].hasCases
           /\ Len(lastOp'.before) = 1
           /\ activeCid # NoCid
           /\ ~IsSending
           /\ (variant = "basic"
                 \/ ~WidgetDisabled(activeSearchWidgetIds, lastOp'.msg)))
             => /\ Len(messages') = Len(messages) + 2
                /\ messages'[Len(messages) + 1].sender = "user"
                /\ messages'[Len(messages) + 1].text
                      = <<"Tell me more about case number ", CaseIds[1]>>]_vars

\* C24 witness: the reply with the fenced payload of one case was classified,
\* its case was ticked and submitted, and the query for case 1 stands in the
\* history.
C24_Witness ==
    /\ lastOp.op = "submit" /\ lastOp.accepted
    /\ lastOp.msg = 2
    /\ messages[2].text = PayloadText("fenceAfterIntro", LoneCase)
    /\ messages[2].hasCases
    /\ messages[Len(messages) - 1].text = <<"Tell me more about case number ", "1">>

-----------------------------------------------------------------------------
(* One send at a time, checked under SpecChat *)

-----------------------------------------------------------------------------
(* The end of a send, checked under SpecSendsEnd *)

\* C30: every send ends cleanly: whether its request succeeds, comes back
\* not OK or throws, the time comes when the thinking message of that send
\* is out of the history and isSending is false, so that the guard of
\* handleSendMessage lets a later send through.
C30_EverySendEnds ==
    \A k \in 1..MaxSends :
        (IsSending /\ Len(requests) = k)
            ~> (/\ ~IsSending
                /\ \A i \in 1..Len(messages) : messages[i].id # ThinkingId(k))

\* C30 witness: the request of a send threw; the send is over, the error is
\* shown and the thinking message is gone while the user message stays.
C30_Witness ==
    /\ lastOp.op = "rejects"
    /\ pcSend = "idle"
    /\ error = "thrown"
    /\ Len(requests) = 1
    /\ \E i \in 1..Len(messages) : messages[i].id = UserMsgId(1)
    /\ \A i \in 1..Len(messages) : messages[i].id # ThinkingId(1)

-----------------------------------------------------------------------------
(* The reply and its conversation, checked under SpecConversations *)

\* C28: a bot reply is appended only to the history of the conversation its
\* request was sent in: when another conversation has become the active one
\* while the request was in flight, the late reply is not appended to the
\* history shown.
C28_ReplyStaysInItsConversation ==
    [][(lastOp'.op = "deliver" /\ requests[Len(requests)].cid # activeCid)
          => \A i \in 1..Len(messages') :
                messages'[i].id # BotMsgId(Len(requests))]_vars

-----------------------------------------------------------------------------
(* Widgets over time, checked under Spec *)

\* C25: a case-search widget that has become inactive never becomes active
\* again, whatever is appended to the history and whatever search results
\* are loaded into a message afterwards, an empty or failed load that
\* replaces the cases of the newest widget included.
C25_InactiveStaysInactive ==
    [][\A i \in 1..Len(messages) :
          (/\ Mounted
           /\ IsSearchMessage(messages[i])
           /\ ~Includes(activeSearchWidgetIds, messages[i].id))
             => ~Includes(activeSearchWidgetIds', messages[i].id)]_vars

\* the case ids the widget of message i shows as selected: the local
\* selection of the SearchWidget of the latest-only revision or of the
\* CaseResultList; the SearchWidget of the sliding-window revision keeps none
\* and marks what the message holds
Displayed(i) ==
    IF ShowsResultList(messages[i]) THEN Range(widgets[i].crlSelected)
    ELSE IF variant = "latest" THEN widgets[i].swSelected
    ELSE Range(messages[i].selectedCases)

\* C26: after every toggle, and after a widget was remounted or switched
\* between the search view and the result list, and after an add rejected at
\* the cap, the selection a widget displays and the selectedCases stored on
\* its message hold the same case ids.
C26_DisplayedIsStored ==
    (IsToggleOp(lastOp) \/ lastOp.op = "toggleSearchWidget")
        => \A i \in 1..Len(messages) :
              RendersWidget(messages[i])
                  => Displayed(i) = Range(messages[i].selectedCases)

-----------------------------------------------------------------------------
(* The selection that goes with a request, checked under SpecWindow *)

\* the ids of a list of cases
CaseIdsOf(cases) == [k \in 1..Len(cases) |-> IdOf(cases[k])]

\* C27: the selectedCaseIds that go out with an agent request are the ids of
\* the selectedCases of a widget that is active when the request is sent: a
\* selection left on a widget that is no longer active is not sent. (Stated
\* of the body handleSendMessage posts for a text sent in the state reached.)
C27_SentSelectionIsActive ==
    (Mounted /\ ~IsSending /\ activeCid # NoCid)
        => \E body \in {RequestBody(<<"hello">>, messages)} :
              body.selectedCaseIds # <<>>
                  => \E i \in 1..Len(messages) :
                        /\ Includes(activeSearchWidgetIds, messages[i].id)
                        /\ CaseIdsOf(messages[i].selectedCases) = body.selectedCaseIds

====
